---- MODULE Spec2Model ----
(***************************************************************************)
(* Display-name resolution of cmd/apipie/main.go: metadata fingerprint,    *)
(* cache keys, the single-model and the group namer, the batch-response    *)
(* parser and the driver loop of main.                                     *)
(*                                                                         *)
(* Go strings are modelled as sequences of one-character strings, so that  *)
(* concatenation, splitting, trimming and integer parsing are computed as  *)
(* the code computes them.                                                 *)
(***************************************************************************)
EXTENDS Integers, Sequences, FiniteSets, TLC

VARIABLES
    pc,             \* position of main
    run,            \* number of the current process run (the cache file survives runs)
    now,            \* wall clock, in days
    cache,          \* the cache table: cache key -> [name, created]
    catalog,        \* modelsResp.Data
    modelGroups,    \* main's modelGroups: identifier -> list of models
    pending,        \* identifiers the range loop of main has not visited yet
    providerModels, \* apipieProvider.Models: list of [ID, Name]
    last,           \* what the last group iteration of main did (history)
    fin,            \* input of the pure function under check
    fout            \* its output

vars == <<pc, run, now, cache, catalog, modelGroups, pending, providerModels, last,
          fin, fout>>

-----------------------------------------------------------------------------
(* Go string functions (package strings, strconv, fmt) on character        *)
(* sequences.                                                              *)

SetMin(S) == CHOOSE x \in S : \A y \in S : x <= y
SetMax(S) == CHOOSE x \in S : \A y \in S : x >= y

\* unicode.IsSpace restricted to the ASCII characters of the model
IsSpace(c) == c \in {" ", "\t", "\n", "\r"}

\* strings.TrimSpace
TrimSpace(s) ==
    LET keep == {i \in 1..Len(s) : ~IsSpace(s[i])}
    IN  IF keep = {} THEN <<>> ELSE SubSeq(s, SetMin(keep), SetMax(keep))

\* strings.Trim(s, cutset): cutset given as a set of characters
Trim(s, cutset) ==
    LET keep == {i \in 1..Len(s) : s[i] \notin cutset}
    IN  IF keep = {} THEN <<>> ELSE SubSeq(s, SetMin(keep), SetMax(keep))

\* strings.HasPrefix(s[i-1:], pat), 1-based i
HasPrefixAt(s, pat, i) ==
    /\ i + Len(pat) - 1 <= Len(s)
    /\ \A j \in 1..Len(pat) : s[i + j - 1] = pat[j]

\* strings.Index, 1-based; 0 when pat does not occur
Index(s, pat) ==
    LET hits == {i \in 1..Len(s) : HasPrefixAt(s, pat, i)}
    IN  IF hits = {} THEN 0 ELSE SetMin(hits)

\* strings.Contains
Contains(s, pat) == Index(s, pat) # 0

\* strings.Split(s, sep) for a non-empty separator
RECURSIVE Split(_, _)
Split(s, sep) ==
    LET i == Index(s, sep)
    IN  IF i = 0 THEN <<s>>
        ELSE <<SubSeq(s, 1, i - 1)>> \o Split(SubSeq(s, i + Len(sep), Len(s)), sep)

\* strings.SplitN(s, sep, 2)
SplitN2(s, sep) ==
    LET i == Index(s, sep)
    IN  IF i = 0 THEN <<s>>
        ELSE <<SubSeq(s, 1, i - 1), SubSeq(s, i + Len(sep), Len(s))>>

\* strings.TrimPrefix
TrimPrefix(s, p) ==
    IF HasPrefixAt(s, p, 1) THEN SubSeq(s, Len(p) + 1, Len(s)) ELSE s

\* strings.Join
RECURSIVE Join(_, _)
Join(elems, sep) ==
    IF elems = <<>> THEN <<>>
    ELSE IF Len(elems) = 1 THEN elems[1]
    ELSE elems[1] \o sep \o Join(Tail(elems), sep)

DigitChars == <<"0", "1", "2", "3", "4", "5", "6", "7", "8", "9">>
IsDigit(c) == \E d \in 1..10 : DigitChars[d] = c
DigitVal(c) == (CHOOSE d \in 1..10 : DigitChars[d] = c) - 1

RECURSIVE DigitsVal(_)
DigitsVal(s) ==
    IF s = <<>> THEN 0
    ELSE 10 * DigitsVal(SubSeq(s, 1, Len(s) - 1)) + DigitVal(s[Len(s)])

\* strconv.Atoi: an optional sign, then one or more decimal digits.  The
\* strings of the model are far shorter than the 19 digits at which the
\* 64-bit range check of Atoi starts to matter.
Atoi(s) ==
    LET signed == s # <<>> /\ s[1] \in {"+", "-"}
        body   == IF signed THEN Tail(s) ELSE s
        ok     == body # <<>> /\ \A i \in 1..Len(body) : IsDigit(body[i])
    IN  [err |-> ~ok,
         val |-> IF ~ok THEN 0
                 ELSE IF signed /\ s[1] = "-" THEN 0 - DigitsVal(body)
                 ELSE DigitsVal(body)]

\* fmt's %d verb
RECURSIVE FormatInt(_)
FormatInt(n) ==
    IF n < 0 THEN <<"-">> \o FormatInt(0 - n)
    ELSE IF n < 10 THEN <<DigitChars[n + 1]>>
    ELSE FormatInt(n \div 10) \o <<DigitChars[(n % 10) + 1]>>

-----------------------------------------------------------------------------
(* Fingerprint and cache keys.                                             *)

\* sha256.Sum256 followed by %x: an ideal, collision-free digest, represented
\* by a value that is equal for equal preimages only.
Sha256Hex(bytes) == [sha256 |-> bytes]

\* a mutant: the provider is left out of the fingerprint
hashModelMetadataNoProvider(model) ==
    Sha256Hex(Join(<<model.Description,
                     model.Route,
                     model.Pool,
                     model.Subtype,
                     model.InstructType,
                     model.Quantization,
                     model.Model,
                     Join(model.InputModalities, <<",">>),
                     Join(model.OutputModalities, <<",">>),
                     FormatInt(model.MaxTokens)>>, <<"|">>))

\* fmt.Sprintf("%s|%s|%s|%s|%s|%s|%s|%s|%s|%s|%d", ...) hashed
hashModelMetadataInput(model) ==
    Join(<<model.Description,
           model.Provider,
           model.Route,
           model.Pool,
           model.Subtype,
           model.InstructType,
           model.Quantization,
           model.Model,
           Join(model.InputModalities, <<",">>),
           Join(model.OutputModalities, <<",">>),
           FormatInt(model.MaxTokens)>>, <<"|">>)

hashModelMetadata(model) == Sha256Hex(hashModelMetadataInput(model))

\* the legacy fingerprint: a hash of the description alone
hashDescription(description) == Sha256Hex(description)

\* a mutant: the key is the identifier alone
getModelCacheKeyIdOnly(model) == <<model.ID, Sha256Hex(<<>>)>>

\* a mutant: the key is the fingerprint alone
getModelCacheKeyFingerprintOnly(model) == <<<<>>, hashModelMetadata(model)>>

\* model.ID + "|" + <64 hex digits>: the digest has a fixed width, so the
\* concatenation determines both parts and is modelled as the pair.
getModelCacheKey(model) == <<model.ID, hashModelMetadata(model)>>

\* the differentiation fields of a model
DiffFields(model) ==
    <<model.Description, model.Provider, model.Route, model.Pool, model.Subtype,
      model.InstructType, model.Quantization, model.Model,
      model.InputModalities, model.OutputModalities, model.MaxTokens>>

-----------------------------------------------------------------------------
(* Maps (Go map[string]string) as functions on a finite set of keys.       *)

EmptyMap == [k \in {} |-> <<>>]

MapPut(m, k, v) == [x \in (DOMAIN m) \cup {k} |-> IF x = k THEN v ELSE m[x]]

\* a Go map value that may be nil
NilMap == [isNil |-> TRUE, m |-> EmptyMap]
SomeMap(m) == [isNil |-> FALSE, m |-> m]

-----------------------------------------------------------------------------
(* Validation and the batch-response parser.                               *)

MaxNameLen == 60

\* a mutant: the length check accepts the empty name
ValidNameAllowEmpty(name) ==
    Len(name) <= MaxNameLen /\ ~Contains(name, <<"\n">>)

\* len(name) > 0 && len(name) <= 60 && !strings.Contains(name, "\n")
ValidName(name) ==
    Len(name) > 0 /\ Len(name) <= MaxNameLen /\ ~Contains(name, <<"\n">>)

\* a mutant: the index is not converted to 0-based
parseIndexOneBased(s) ==
    LET r == Atoi(s)
    IN  IF ~r.err /\ r.val > 0 THEN r.val ELSE -1

\* parseIndex: the 0-based index, -1 if invalid
parseIndex(s) ==
    LET r == Atoi(s)
    IN  IF ~r.err /\ r.val > 0 THEN r.val - 1 ELSE -1

ArrowSep == <<"]", " ", "-", ">">>

\* one iteration of the line loop of parseGroupNamesResponse: the result map
\* after the line
parseGroupLine(rawLine, models, result) ==
    LET line == TrimSpace(rawLine)
    IN  IF ~Contains(line, ArrowSep) THEN result
        ELSE LET parts    == SplitN2(line, ArrowSep)
                 indexStr == TrimPrefix(TrimSpace(parts[1]), <<"[">>)
                 name     == TrimSpace(parts[2])
                 idx      == parseIndex(indexStr)
             IN  IF Len(parts) = 2 /\ idx >= 0 /\ idx < Len(models) /\ ValidName(name)
                 THEN MapPut(result, getModelCacheKey(models[idx + 1]), name)
                 ELSE result

RECURSIVE parseGroupLines(_, _, _)
parseGroupLines(lines, models, result) ==
    IF lines = <<>> THEN result
    ELSE parseGroupLines(Tail(lines), models, parseGroupLine(Head(lines), models, result))

\* parseGroupNamesResponse: cache key -> name
parseGroupNamesResponse(response, models) ==
    parseGroupLines(Split(response, <<"\n">>), models, EmptyMap)

-----------------------------------------------------------------------------
(* The generation service.  An answer of the service is a record           *)
(* [kind, content]: client.Do failed ("neterr", a timeout included), the   *)
(* status was not 200 ("status"), the body did not decode ("decode"), the  *)
(* choice list was empty ("empty"), or choices[0].message.content is       *)
(* content ("ok").  json.Marshal of the request and http.NewRequest with   *)
(* the constant URL cannot fail and are not modelled as failing.           *)

FirstLine(description) == Split(description, <<"\n">>)[1]

\* the prompt of generateDisplayNameWithLLM, by the values it interpolates
SinglePrompt(id, description) ==
    [kind |-> "single", id |-> id, description |-> FirstLine(description)]

\* a mutant: a failed call is made a second time
generateDisplayNameWithLLMRetrying(key, id, description, http) ==
    LET prompt == SinglePrompt(id, description)
        name   == Trim(TrimSpace(http.content), {"\"", "'"})
    IN  IF ~key THEN [name |-> <<>>, notes |-> <<>>, requests |-> <<>>]
        ELSE IF http.kind \in {"neterr", "status", "decode", "empty"}
        THEN [name |-> <<>>, notes |-> <<http.kind>>, requests |-> <<prompt, prompt>>]
        ELSE IF ValidName(name)
        THEN [name |-> name, notes |-> <<>>, requests |-> <<prompt>>]
        ELSE [name |-> <<>>, notes |-> <<"invalid display name format">>,
              requests |-> <<prompt>>]

\* generateDisplayNameWithLLM: the name ("" on failure), the messages of its
\* notifyGitHubUser calls (the notification sink), and the requests sent
generateDisplayNameWithLLM(key, id, description, http) ==
    LET prompt == SinglePrompt(id, description)
        name   == Trim(TrimSpace(http.content), {"\"", "'"})
    IN  IF ~key THEN [name |-> <<>>, notes |-> <<>>, requests |-> <<>>]
        ELSE IF http.kind = "neterr"
        THEN [name |-> <<>>, notes |-> <<"network error">>, requests |-> <<prompt>>]
        ELSE IF http.kind = "status"
        THEN [name |-> <<>>, notes |-> <<"status">>, requests |-> <<prompt>>]
        ELSE IF http.kind = "decode"
        THEN [name |-> <<>>, notes |-> <<"decode">>, requests |-> <<prompt>>]
        ELSE IF http.kind = "empty"
        THEN [name |-> <<>>, notes |-> <<"empty choices">>, requests |-> <<prompt>>]
        ELSE IF ValidName(name)
        THEN [name |-> name, notes |-> <<>>, requests |-> <<prompt>>]
        ELSE [name |-> <<>>, notes |-> <<"invalid display name format">>,
              requests |-> <<prompt>>]

\* strings.Join(modalities, ", ") with the "text" default
FormatModalities(modalities) ==
    LET joined == Join(modalities, <<",", " ">>)
    IN  IF joined = <<>> THEN <<"t", "e", "x", "t">> ELSE joined

\* the context-window annotation of the batch prompt, after strings.TrimSpace
FormatContextInfo(maxTokens) ==
    LET tokens == <<" ", "t", "o", "k", "e", "n", "s", ")">>
        info ==
            IF maxTokens > 0
            THEN IF maxTokens >= 1000000
                 THEN <<" ", "(">> \o FormatInt(maxTokens \div 1000000) \o <<"M">> \o tokens
                 ELSE IF maxTokens >= 1000
                 THEN <<" ", "(">> \o FormatInt(maxTokens \div 1000) \o <<"K">> \o tokens
                 ELSE <<" ", "(">> \o FormatInt(maxTokens) \o tokens
            ELSE <<>>
    IN  TrimSpace(info)

\* a mutant: the prompt leaves the provider out
BatchPromptWithoutProvider(models) ==
    [kind    |-> "batch",
     entries |-> [i \in 1..Len(models) |->
                    [pos              |-> i,
                     ID               |-> models[i].ID,
                     Model            |-> models[i].Model,
                     Provider         |-> <<>>,
                     Route            |-> models[i].Route,
                     Pool             |-> models[i].Pool,
                     Subtype          |-> models[i].Subtype,
                     InputModalities  |-> FormatModalities(models[i].InputModalities),
                     OutputModalities |-> FormatModalities(models[i].OutputModalities),
                     ContextWindow    |-> FormatContextInfo(models[i].MaxTokens),
                     Description      |-> FirstLine(models[i].Description)]]]

\* the prompt of generateDisplayNamesForGroup, by the values it interpolates
BatchPrompt(models) ==
    [kind    |-> "batch",
     entries |-> [i \in 1..Len(models) |->
                    [pos              |-> i,
                     ID               |-> models[i].ID,
                     Model            |-> models[i].Model,
                     Provider         |-> models[i].Provider,
                     Route            |-> models[i].Route,
                     Pool             |-> models[i].Pool,
                     Subtype          |-> models[i].Subtype,
                     InputModalities  |-> FormatModalities(models[i].InputModalities),
                     OutputModalities |-> FormatModalities(models[i].OutputModalities),
                     ContextWindow    |-> FormatContextInfo(models[i].MaxTokens),
                     Description      |-> FirstLine(models[i].Description)]]]

\* a mutant: a non-success status is not handed to notifyGitHubUser
generateDisplayNamesForGroupSilentStatus(key, models, http) ==
    LET prompt == BatchPrompt(models)
        one    == generateDisplayNameWithLLM(key, models[1].ID, models[1].Description, http)
    IN  IF ~key THEN [names |-> NilMap, notes |-> <<>>, requests |-> <<>>]
        ELSE IF Len(models) = 1
        THEN [names    |-> IF one.name # <<>>
                           THEN SomeMap(MapPut(EmptyMap, getModelCacheKey(models[1]), one.name))
                           ELSE NilMap,
              notes    |-> one.notes,
              requests |-> one.requests]
        ELSE IF http.kind = "neterr"
        THEN [names |-> NilMap, notes |-> <<"network error">>, requests |-> <<prompt>>]
        ELSE IF http.kind \in {"status", "decode"}
        THEN [names |-> NilMap, notes |-> <<>>, requests |-> <<prompt>>]
        ELSE IF http.kind = "empty"
        THEN [names |-> NilMap, notes |-> <<"empty choices">>, requests |-> <<prompt>>]
        ELSE [names    |-> SomeMap(parseGroupNamesResponse(TrimSpace(http.content), models)),
              notes    |-> <<>>,
              requests |-> <<prompt>>]

\* generateDisplayNamesForGroup: the map of names (nil on failure), the
\* messages handed to notifyGitHubUser, and the requests sent
generateDisplayNamesForGroup(key, models, http) ==
    LET prompt == BatchPrompt(models)
        one    == generateDisplayNameWithLLM(key, models[1].ID, models[1].Description, http)
    IN  IF ~key THEN [names |-> NilMap, notes |-> <<>>, requests |-> <<>>]
        ELSE IF Len(models) = 1
        THEN [names    |-> IF one.name # <<>>
                           THEN SomeMap(MapPut(EmptyMap, getModelCacheKey(models[1]), one.name))
                           ELSE NilMap,
              notes    |-> one.notes,
              requests |-> one.requests]
        ELSE IF http.kind = "neterr"
        THEN [names |-> NilMap, notes |-> <<"network error">>, requests |-> <<prompt>>]
        ELSE IF http.kind = "status"
        THEN [names |-> NilMap, notes |-> <<"status">>, requests |-> <<prompt>>]
        ELSE IF http.kind = "decode"
        THEN [names |-> NilMap, notes |-> <<"decode">>, requests |-> <<prompt>>]
        ELSE IF http.kind = "empty"
        THEN [names |-> NilMap, notes |-> <<"empty choices">>, requests |-> <<prompt>>]
        ELSE [names    |-> SomeMap(parseGroupNamesResponse(TrimSpace(http.content), models)),
              notes    |-> <<>>,
              requests |-> <<prompt>>]

-----------------------------------------------------------------------------
(* The persistent cache (cache.go): a table keyed by (identifier,          *)
(* fingerprint) holding the display name and the creation time.  A storage *)
(* error is an input of each operation.                                    *)

\* Cache.Get: the name, "" on a miss or on a storage error
CacheGet(c, model, storageErr) ==
    LET key == getModelCacheKey(model)
    IN  IF storageErr \/ key \notin DOMAIN c THEN <<>> ELSE c[key].name

\* Cache.Set: upsert, last write wins; the table is unchanged on a storage error
CacheSet(c, model, name, t, storageErr) ==
    IF storageErr THEN c
    ELSE MapPut(c, getModelCacheKey(model), [name |-> name, created |-> t])

\* Cache.CleanOldEntries: deletes the entries created before t - maxAge
CacheCleanOldEntries(c, maxAge, t, storageErr) ==
    IF storageErr THEN c
    ELSE [k \in {x \in DOMAIN c : c[x].created >= t - maxAge} |-> c[k]]

-----------------------------------------------------------------------------
(* The namers.  c is the cache table, t the clock, key tells whether       *)
(* APIPIE_DISPLAY_NAME_API_KEY is set (the environment is read by          *)
(* os.Getenv at each call), http is the answer of the generation service,  *)
(* getErr and setErr are the storage errors of the cache calls.            *)

\* a mutant: the fallback is written to the cache as well
createDisplayNameCachingFallback(c, t, key, model, http, getErr, setErr) ==
    LET cachedName == CacheGet(c, model, getErr)
        gen        == generateDisplayNameWithLLM(key, model.ID, model.Description, http)
    IN  IF cachedName # <<>>
        THEN [name |-> cachedName, cache |-> c, source |-> "cache",
              notes |-> <<>>, requests |-> <<>>, sets |-> {}]
        ELSE IF gen.name # <<>>
        THEN [name |-> gen.name,
              cache |-> CacheSet(c, model, gen.name, t, setErr),
              source |-> "llm", notes |-> gen.notes, requests |-> gen.requests,
              sets |-> {[key |-> getModelCacheKey(model), name |-> gen.name, err |-> setErr]}]
        ELSE [name |-> model.ID, cache |-> CacheSet(c, model, model.ID, t, FALSE),
              source |-> "fallback",
              notes |-> gen.notes, requests |-> gen.requests, sets |-> {}]

\* a mutant: the generated name is returned without the cache write
createDisplayNameNoWrite(c, t, key, model, http, getErr, setErr) ==
    LET cachedName == CacheGet(c, model, getErr)
        gen        == generateDisplayNameWithLLM(key, model.ID, model.Description, http)
    IN  IF cachedName # <<>>
        THEN [name |-> cachedName, cache |-> c, source |-> "cache",
              notes |-> <<>>, requests |-> <<>>, sets |-> {}]
        ELSE IF gen.name # <<>>
        THEN [name |-> gen.name, cache |-> c,
              source |-> "llm", notes |-> gen.notes, requests |-> gen.requests,
              sets |-> {}]
        ELSE [name |-> model.ID, cache |-> c, source |-> "fallback",
              notes |-> gen.notes, requests |-> gen.requests, sets |-> {}]

\* a mutant: a failed cache write discards the generated name
createDisplayNameFailOnSetError(c, t, key, model, http, getErr, setErr) ==
    LET cachedName == CacheGet(c, model, getErr)
        gen        == generateDisplayNameWithLLM(key, model.ID, model.Description, http)
    IN  IF cachedName # <<>>
        THEN [name |-> cachedName, cache |-> c, source |-> "cache",
              notes |-> <<>>, requests |-> <<>>, sets |-> {}]
        ELSE IF gen.name # <<>>
        THEN [name |-> IF setErr THEN model.ID ELSE gen.name,
              cache |-> CacheSet(c, model, gen.name, t, setErr),
              source |-> "llm", notes |-> gen.notes, requests |-> gen.requests,
              sets |-> {[key |-> getModelCacheKey(model), name |-> gen.name, err |-> setErr]}]
        ELSE [name |-> model.ID, cache |-> c, source |-> "fallback",
              notes |-> gen.notes, requests |-> gen.requests, sets |-> {}]

\* createDisplayName
createDisplayName(c, t, key, model, http, getErr, setErr) ==
    LET cachedName == CacheGet(c, model, getErr)
        gen        == generateDisplayNameWithLLM(key, model.ID, model.Description, http)
    IN  IF cachedName # <<>>
        THEN [name |-> cachedName, cache |-> c, source |-> "cache",
              notes |-> <<>>, requests |-> <<>>, sets |-> {}]
        ELSE IF gen.name # <<>>
        THEN [name |-> gen.name,
              cache |-> CacheSet(c, model, gen.name, t, setErr),
              source |-> "llm", notes |-> gen.notes, requests |-> gen.requests,
              sets |-> {[key |-> getModelCacheKey(model), name |-> gen.name, err |-> setErr]}]
        ELSE [name |-> model.ID, cache |-> c, source |-> "fallback",
              notes |-> gen.notes, requests |-> gen.requests, sets |-> {}]

\* the members of models at the positions of idx, in order
RECURSIVE Pick(_, _, _)
Pick(models, idx, i) ==
    IF i > Len(models) THEN <<>>
    ELSE (IF i \in idx THEN <<models[i]>> ELSE <<>>) \o Pick(models, idx, i + 1)

\* a mutant: the cache write stores the identifier instead of the name
RECURSIVE SetAllIdentifiers(_, _, _, _, _)
SetAllIdentifiers(c, names, uncached, t, setErrs) ==
    IF DOMAIN names = {} THEN c
    ELSE LET k     == CHOOSE x \in DOMAIN names : TRUE
             i     == SetMin({j \in 1..Len(uncached) : getModelCacheKey(uncached[j]) = k})
             rest  == [x \in (DOMAIN names) \ {k} |-> names[x]]
         IN  SetAllIdentifiers(CacheSet(c, uncached[i], uncached[i].ID, t, k \in setErrs),
                               rest, uncached, t, setErrs)

\* the cache writes of the range loop over groupNames: one Set per key, for
\* the first uncached model with that key
RECURSIVE SetAll(_, _, _, _, _)
SetAll(c, names, uncached, t, setErrs) ==
    IF DOMAIN names = {} THEN c
    ELSE LET k     == CHOOSE x \in DOMAIN names : TRUE
             i     == SetMin({j \in 1..Len(uncached) : getModelCacheKey(uncached[j]) = k})
             rest  == [x \in (DOMAIN names) \ {k} |-> names[x]]
         IN  SetAll(CacheSet(c, uncached[i], names[k], t, k \in setErrs),
                    rest, uncached, t, setErrs)

\* the first of the uncached models with cache key k
FirstWithKey(uncached, k) ==
    uncached[SetMin({j \in 1..Len(uncached) : getModelCacheKey(uncached[j]) = k})]

\* the cache after a write of the identifier for each of the keys
RECURSIVE SetFallbacks(_, _, _, _)
SetFallbacks(c, keys, uncached, t) ==
    IF keys = {} THEN c
    ELSE LET k == CHOOSE x \in keys : TRUE
         IN  SetFallbacks(CacheSet(c, FirstWithKey(uncached, k),
                                   FirstWithKey(uncached, k).ID, t, FALSE),
                          keys \ {k}, uncached, t)

\* a mutant: the fallback loop writes the identifier to the cache
GroupResultCachingFallback(c, t, setErrs, hits, cached, uncached, gen, names) ==
    [result    |-> [k \in (DOMAIN cached) \cup (DOMAIN names)
                            \cup {getModelCacheKey(uncached[j]) : j \in 1..Len(uncached)} |->
                        IF k \in DOMAIN names THEN names[k]
                        ELSE IF k \in DOMAIN cached THEN cached[k]
                        ELSE FirstWithKey(uncached, k).ID],
     cache     |-> SetFallbacks(SetAll(c, names, uncached, t, setErrs),
                                {getModelCacheKey(uncached[j]) : j \in 1..Len(uncached)}
                                    \ ((DOMAIN cached) \cup (DOMAIN names)),
                                uncached, t),
     hits      |-> hits,
     uncached  |-> uncached,
     generated |-> DOMAIN names,
     fallback  |-> {getModelCacheKey(uncached[j]) : j \in 1..Len(uncached)}
                        \ ((DOMAIN cached) \cup (DOMAIN names)),
     notes     |-> gen.notes,
     requests  |-> gen.requests,
     sets      |-> {[key |-> k, name |-> names[k], err |-> k \in setErrs] :
                        k \in DOMAIN names}]

\* a mutant: the fallback loop overwrites the names found in the cache
GroupResultOverwritingCached(c, t, setErrs, hits, cached, uncached, gen, names) ==
    [result    |-> [k \in (DOMAIN cached) \cup (DOMAIN names)
                            \cup {getModelCacheKey(uncached[j]) : j \in 1..Len(uncached)} |->
                        IF k \in DOMAIN names THEN names[k] ELSE k[1]],
     cache     |-> SetAll(c, names, uncached, t, setErrs),
     hits      |-> hits,
     uncached  |-> uncached,
     generated |-> DOMAIN names,
     fallback  |-> {getModelCacheKey(uncached[j]) : j \in 1..Len(uncached)}
                        \ ((DOMAIN cached) \cup (DOMAIN names)),
     notes     |-> gen.notes,
     requests  |-> gen.requests,
     sets      |-> {[key |-> k, name |-> names[k], err |-> k \in setErrs] :
                        k \in DOMAIN names}]

\* a mutant: the fallback loop is missing
GroupResultNoFallback(c, t, setErrs, hits, cached, uncached, gen, names) ==
    [result    |-> [k \in (DOMAIN cached) \cup (DOMAIN names) |->
                        IF k \in DOMAIN names THEN names[k] ELSE cached[k]],
     cache     |-> SetAll(c, names, uncached, t, setErrs),
     hits      |-> hits,
     uncached  |-> uncached,
     generated |-> DOMAIN names,
     fallback  |-> {},
     notes     |-> gen.notes,
     requests  |-> gen.requests,
     sets      |-> {[key |-> k, name |-> names[k], err |-> k \in setErrs] :
                        k \in DOMAIN names}]

\* createDisplayNamesForGroup, from the caching loop to the return: names is
\* groupNames (empty when it is nil)
GroupResult(c, t, setErrs, hits, cached, uncached, gen, names) ==
    [result    |-> [k \in (DOMAIN cached) \cup (DOMAIN names)
                            \cup {getModelCacheKey(uncached[j]) : j \in 1..Len(uncached)} |->
                        IF k \in DOMAIN names THEN names[k]
                        ELSE IF k \in DOMAIN cached THEN cached[k]
                        ELSE FirstWithKey(uncached, k).ID],
     cache     |-> SetAll(c, names, uncached, t, setErrs),
     hits      |-> hits,
     uncached  |-> uncached,
     generated |-> DOMAIN names,
     fallback  |-> {getModelCacheKey(uncached[j]) : j \in 1..Len(uncached)}
                        \ ((DOMAIN cached) \cup (DOMAIN names)),
     notes     |-> gen.notes,
     requests  |-> gen.requests,
     sets      |-> {[key |-> k, name |-> names[k], err |-> k \in setErrs] :
                        k \in DOMAIN names}]

\* createDisplayNamesForGroup, after generateDisplayNamesForGroup returned gen
GroupAfterGeneration(c, t, setErrs, hits, cached, uncached, gen) ==
    GroupResult(c, t, setErrs, hits, cached, uncached, gen,
                IF gen.names.isNil THEN EmptyMap ELSE gen.names.m)

\* createDisplayNamesForGroup, from the test of uncachedModels on
GroupAfterLookup(c, t, key, http, setErrs, hits, cached, uncached) ==
    IF uncached = <<>>
    THEN [result |-> cached, cache |-> c, hits |-> hits, uncached |-> uncached,
          generated |-> {}, fallback |-> {},
          notes |-> <<>>, requests |-> <<>>, sets |-> {}]
    ELSE GroupAfterGeneration(c, t, setErrs, hits, cached, uncached,
                              generateDisplayNamesForGroup(key, uncached, http))

\* a mutant: every member goes into the generation request, cached or not
GroupPartitionAllUncached(c, t, key, models, http, setErrs, hits) ==
    GroupAfterLookup(c, t, key, http, setErrs, hits,
                     [k \in {getModelCacheKey(models[i]) : i \in hits} |-> c[k].name],
                     models)

\* createDisplayNamesForGroup, after the lookups: hits are the positions whose
\* cache.Get returned a name
GroupPartition(c, t, key, models, http, setErrs, hits) ==
    GroupAfterLookup(c, t, key, http, setErrs, hits,
                     [k \in {getModelCacheKey(models[i]) : i \in hits} |-> c[k].name],
                     Pick(models, (1..Len(models)) \ hits, 1))

\* createDisplayNamesForGroup
createDisplayNamesForGroup(c, t, key, models, http, getErrs, setErrs) ==
    GroupPartition(c, t, key, models, http, setErrs,
                   {i \in 1..Len(models) : CacheGet(c, models[i], i \in getErrs) # <<>>})

-----------------------------------------------------------------------------
(* Inputs of the runs: the catalog and the answers of the generation       *)
(* service.                                                                *)

MaxRuns == 2
MaxCatalog == 2
MaxAgeDays == 30

BaseModel ==
    [ID |-> <<"a">>, Model |-> <<"a">>, Route |-> <<>>, Description |-> <<>>,
     MaxTokens |-> 0, Type |-> "llm", Subtype |-> <<>>, Provider |-> <<>>,
     Pool |-> <<>>, InstructType |-> <<>>, Quantization |-> <<>>,
     Enabled |-> 1, Available |-> 1,
     InputModalities |-> <<>>, OutputModalities |-> <<>>]

\* two variants of identifier "a", a model "b", and a disabled model "c"
CatalogModels ==
    { [BaseModel EXCEPT !.Provider = <<"o">>],
      [BaseModel EXCEPT !.Provider = <<"z">>, !.MaxTokens = 128000,
                        !.InputModalities = <<<<"t">>, <<"i">>>>],
      [BaseModel EXCEPT !.ID = <<"b">>, !.Model = <<"b">>, !.Description = <<"d", "\n", "e">>],
      [BaseModel EXCEPT !.ID = <<"c">>, !.Model = <<"c">>, !.Enabled = 0] }

RECURSIVE SeqsUpTo(_, _)
SeqsUpTo(S, n) ==
    IF n = 0 THEN {<<>>}
    ELSE LET shorter == SeqsUpTo(S, n - 1)
         IN  shorter \cup {Append(q, x) : q \in shorter, x \in S}

\* the catalogs the fetch may return
Catalogs == SeqsUpTo(CatalogModels, MaxCatalog) \ {<<>>}

HttpFailures ==
    {[kind |-> k, content |-> <<>>] : k \in {"neterr", "status", "decode", "empty"}}

\* the names of a complete batch answer, by position
AnswerNames == <<<<"P">>, <<"Q">>, <<"R">>, <<"S">>>>

\* a batch answer with one valid line for each of the positions 1..n
BatchAnswer(n) ==
    Join([i \in 1..n |-> <<"[">> \o FormatInt(i) \o <<"]", " ", "-", ">", " ">>
                            \o AnswerNames[i]],
         <<"\n">>)

\* choices[0].message.content: the complete batch answers for two and more
\* positions, a batch line naming position 1 by the identifier itself, a bare
\* name, the identifier as the name, and the empty text
HttpContents ==
    {BatchAnswer(n) : n \in 2..MaxCatalog} \cup
    { <<"[", "1", "]", " ", "-", ">", " ", "a">>,
      <<"P">>,
      <<"a">>,
      <<>> }

HttpAnswers == HttpFailures \cup {[kind |-> "ok", content |-> c] : c \in HttpContents}

\* what a generation call meets: no credential in the environment (no request
\* is made, so the answer is immaterial), or the credential and an answer
GenerationInputs ==
    {[key |-> FALSE, http |-> [kind |-> "neterr", content |-> <<>>]]}
        \cup {[key |-> TRUE, http |-> h] : h \in HttpAnswers}

-----------------------------------------------------------------------------
(* main.                                                                   *)

\* isTextModel
isTextModel(model) ==
    model.Enabled = 1 /\ model.Available = 1 /\ model.Type = "llm"

\* the grouping loop of main: identifier -> eligible models, in catalog order
GroupModelsByID(data) ==
    LET eligible == SelectSeq(data, isTextModel)
        ids      == {eligible[i].ID : i \in 1..Len(eligible)}
    IN  [id \in ids |-> SelectSeq(eligible, LAMBDA m : m.ID = id)]

\* a mutant: a model without an entry in displayNames gets no record
OutputRecordsOnlyNamed(models, displayNames) ==
    LET named == SelectSeq(models, LAMBDA m : getModelCacheKey(m) \in DOMAIN displayNames)
    IN  [i \in 1..Len(named) |->
            [ID |-> named[i].ID, Name |-> displayNames[getModelCacheKey(named[i])]]]

\* the catwalk.Model entries main appends for the models of one group;
\* of an entry only the identifier and the name are modelled
OutputRecords(models, displayNames) ==
    [i \in 1..Len(models) |->
        LET key == getModelCacheKey(models[i])
        IN  [ID   |-> models[i].ID,
             Name |-> IF key \in DOMAIN displayNames
                      THEN displayNames[key] ELSE models[i].ID]]

\* a mutant: the singleton result is recorded under the model's cache key
SingleResultKeyFull(model) == getModelCacheKey(model)

\* the key under which main records the result of createDisplayName
SingleResultKey(model) == <<model.ID, hashDescription(model.Description)>>

NoResolution == [kind |-> "none"]

\* the storage errors a Get may meet: a failed read of an absent row returns
\* "" as the miss does, so only the read of a present row is given both outcomes
GetErrors(c, model) ==
    IF getModelCacheKey(model) \in DOMAIN c THEN BOOLEAN ELSE {FALSE}

Init ==
    /\ pc = "start"
    /\ run = 1
    /\ now = 0
    /\ cache = EmptyMap
    /\ catalog = <<>>
    /\ modelGroups = EmptyMap
    /\ pending = {}
    /\ providerModels = <<>>
    /\ last = NoResolution
    /\ fin = <<>>
    /\ fout = <<>>

\* NewCache: the cache file is opened, or the run aborts (log.Fatal)
NewCache ==
    /\ pc = "start"
    /\ \E ok \in BOOLEAN : pc' = IF ok THEN "clean" ELSE "aborted"
    /\ UNCHANGED <<run, now, cache, catalog, modelGroups, pending,
                   providerModels, last, fin, fout>>

\* a mutant: a failure of the sweep ends the run
CleanOldEntriesAbortOnError ==
    /\ pc = "clean"
    /\ \E err \in BOOLEAN :
          /\ cache' = CacheCleanOldEntries(cache, MaxAgeDays, now, err)
          /\ pc' = IF err THEN "aborted" ELSE "fetch"
    /\ UNCHANGED <<run, now, catalog, modelGroups, pending,
                   providerModels, last, fin, fout>>

\* cache.CleanOldEntries(30 days); a failure is logged only
CleanOldEntries ==
    /\ pc = "clean"
    /\ \E err \in BOOLEAN : cache' = CacheCleanOldEntries(cache, MaxAgeDays, now, err)
    /\ pc' = "fetch"
    /\ UNCHANGED <<run, now, catalog, modelGroups, pending,
                   providerModels, last, fin, fout>>

\* fetchAPIpieModels: a catalog, or the run aborts
FetchModels ==
    /\ pc = "fetch"
    /\ \/ /\ pc' = "aborted"
          /\ UNCHANGED catalog
       \/ /\ \E data \in Catalogs : catalog' = data
          /\ pc' = "group"
    /\ UNCHANGED <<run, now, cache, modelGroups, pending,
                   providerModels, last, fin, fout>>

\* the grouping loop
GroupModels ==
    /\ pc = "group"
    /\ modelGroups' = GroupModelsByID(catalog)
    /\ pending' = DOMAIN modelGroups'
    /\ pc' = "loop"
    /\ UNCHANGED <<run, now, cache, catalog,
                   providerModels, last, fin, fout>>

\* one iteration of the range loop over modelGroups, single-model branch
ProcessSingle ==
    /\ pc = "loop"
    /\ \E id \in pending :
         LET models == modelGroups[id]
             model  == models[1]
         IN  /\ Len(models) = 1
             /\ \E gen \in GenerationInputs,
                   getErr \in GetErrors(cache, model), setErr \in BOOLEAN :
                  LET r            == createDisplayName(cache, now, gen.key, model,
                                                        gen.http, getErr, setErr)
                      displayNames == MapPut(EmptyMap, SingleResultKey(model), r.name)
                      out          == OutputRecords(models, displayNames)
                  IN  /\ cache' = r.cache
                      /\ providerModels' = providerModels \o out
                      /\ last' = [kind |-> "single", models |-> models,
                                  cacheBefore |-> cache, key |-> gen.key, http |-> gen.http,
                                  res |-> r,
                                  displayNames |-> displayNames, out |-> out]
             /\ pending' = pending \ {id}
    /\ UNCHANGED <<pc, run, now, catalog, modelGroups, fin, fout>>

\* a mutant: a group without any generated name stays in the loop
ProcessGroupRetrying ==
    /\ pc = "loop"
    /\ \E id \in pending :
         LET models == modelGroups[id]
         IN  /\ Len(models) # 1
             /\ \E gen \in GenerationInputs,
                   getErrs \in SUBSET {i \in 1..Len(models) :
                                          TRUE \in GetErrors(cache, models[i])},
                   setErrs \in SUBSET {getModelCacheKey(models[i]) : i \in 1..Len(models)} :
                  LET r   == createDisplayNamesForGroup(cache, now, gen.key, models,
                                                        gen.http, getErrs, setErrs)
                      out == OutputRecords(models, r.result)
                  IN  /\ cache' = r.cache
                      /\ last' = [kind |-> "group", models |-> models,
                                  cacheBefore |-> cache, key |-> gen.key, http |-> gen.http,
                                  res |-> r,
                                  displayNames |-> r.result, out |-> out]
                      /\ IF r.uncached # <<>> /\ r.generated = {}
                         THEN UNCHANGED <<pending, providerModels>>
                         ELSE /\ providerModels' = providerModels \o out
                              /\ pending' = pending \ {id}
    /\ UNCHANGED <<pc, run, now, catalog, modelGroups, fin, fout>>

\* one iteration of the range loop over modelGroups, group branch
ProcessGroup ==
    /\ pc = "loop"
    /\ \E id \in pending :
         LET models == modelGroups[id]
         IN  /\ Len(models) # 1
             /\ \E gen \in GenerationInputs,
                   getErrs \in SUBSET {i \in 1..Len(models) :
                                          TRUE \in GetErrors(cache, models[i])},
                   setErrs \in SUBSET {getModelCacheKey(models[i]) : i \in 1..Len(models)} :
                  LET r   == createDisplayNamesForGroup(cache, now, gen.key, models,
                                                        gen.http, getErrs, setErrs)
                      out == OutputRecords(models, r.result)
                  IN  /\ cache' = r.cache
                      /\ providerModels' = providerModels \o out
                      /\ last' = [kind |-> "group", models |-> models,
                                  cacheBefore |-> cache, key |-> gen.key, http |-> gen.http,
                                  res |-> r,
                                  displayNames |-> r.result, out |-> out]
             /\ pending' = pending \ {id}
    /\ UNCHANGED <<pc, run, now, catalog, modelGroups, fin, fout>>

\* the characters of the model in byte order
ByteOrder ==
    << "\n", " ", "\"", "'", "(", ")", "+", ",", "-", ".", "0", "1", "2",
       "3", "4", "5", "6", "7", "8", "9", ">", "A", "B", "C", "D", "E", "F",
       "G", "H", "I", "J", "K", "L", "M", "N", "O", "P", "Q", "R", "S", "T",
       "U", "V", "W", "X", "Y", "Z", "[", "]", "a", "b", "c", "d", "e", "f",
       "g", "h", "i", "j", "k", "l", "m", "n", "o", "p", "q", "r", "s", "t",
       "u", "v", "w", "x", "y", "z", "|" >>

ByteOf(c) == CHOOSE i \in 1..Len(ByteOrder) : ByteOrder[i] = c

\* strings.Compare: -1, 0 or 1
RECURSIVE Compare(_, _)
Compare(a, b) ==
    IF a = <<>> /\ b = <<>> THEN 0
    ELSE IF a = <<>> THEN -1
    ELSE IF b = <<>> THEN 1
    ELSE IF ByteOf(a[1]) < ByteOf(b[1]) THEN -1
    ELSE IF ByteOf(a[1]) > ByteOf(b[1]) THEN 1
    ELSE Compare(Tail(a), Tail(b))

\* a mutant: the records stay in the order of the loop
UnsortedRecords(records) == {records}

\* the orders slices.SortFunc may leave the records in (the sort is not stable)
SortedByName(records) ==
    LET n == Len(records)
    IN  {[i \in 1..n |-> records[p[i]]] : p \in
            {q \in Permutations(1..n) :
                \A i \in 1..(n - 1) : Compare(records[q[i]].Name, records[q[i + 1]].Name) <= 0}}

\* slices.SortFunc(apipieProvider.Models, by Name), once the loop is over
SortModels ==
    /\ pc = "loop"
    /\ pending = {}
    /\ providerModels' \in SortedByName(providerModels)
    /\ pc' = "write"
    /\ UNCHANGED <<run, now, cache, catalog, modelGroups, pending,
                   last, fin, fout>>

\* json.MarshalIndent and os.WriteFile: the config is written, or the run aborts
WriteConfig ==
    /\ pc = "write"
    /\ \E ok \in BOOLEAN : pc' = IF ok THEN "done" ELSE "aborted"
    /\ UNCHANGED <<run, now, cache, catalog, modelGroups, pending,
                   providerModels, last, fin, fout>>

\* the process has ended; a later run of the tool starts on the same cache file
NextRun ==
    /\ pc \in {"done", "aborted"}
    /\ run < MaxRuns
    /\ run' = run + 1
    /\ now' \in {now + 1, now + MaxAgeDays + 1}
    /\ pc' = "start"
    /\ catalog' = <<>>
    /\ modelGroups' = EmptyMap
    /\ pending' = {}
    /\ providerModels' = <<>>
    /\ last' = NoResolution
    /\ UNCHANGED <<cache, fin, fout>>

Next ==
    \/ NewCache
    \/ CleanOldEntries
    \/ FetchModels
    \/ GroupModels
    \/ ProcessSingle
    \/ ProcessGroup
    \/ SortModels
    \/ WriteConfig
    \/ NextRun

Spec == Init /\ [][Next]_vars

-----------------------------------------------------------------------------
(* The fingerprint as a pure function: a pair of models is drawn, and the  *)
(* action hashes both.                                                     *)

runVars == <<pc, run, now, cache, catalog, modelGroups, pending, providerModels, last>>

\* no run of main is in progress
IdleRun ==
    /\ pc = "idle"
    /\ run = 0
    /\ now = 0
    /\ cache = EmptyMap
    /\ catalog = <<>>
    /\ modelGroups = EmptyMap
    /\ pending = {}
    /\ providerModels = <<>>
    /\ last = NoResolution

MaxHashTokens == 1

\* models differing in description, provider, input modalities and context size,
\* with and without the separator characters inside a field
HashModels ==
    {[BaseModel EXCEPT !.Description = d, !.Provider = p,
                       !.InputModalities = im, !.MaxTokens = mt] :
        d  \in {<<>>, <<"d">>, <<"d", "|">>},
        p  \in {<<>>, <<"|">>, <<"o">>},
        im \in {<<>>, <<<<"t">>>>, <<<<"t">>, <<"i">>>>, <<<<"t", ",", "i">>>>},
        mt \in 0..MaxHashTokens}

InitHash ==
    /\ IdleRun
    /\ fin \in HashModels \X HashModels
    /\ fout = <<>>

ApplyHash ==
    /\ fout = <<>>
    /\ fout' = <<hashModelMetadata(fin[1]), hashModelMetadata(fin[2])>>
    /\ UNCHANGED <<fin, runVars>>

SpecHash == InitHash /\ [][ApplyHash]_vars

-----------------------------------------------------------------------------
(* The batch-response parser as a pure function.  A response is composed   *)
(* from line descriptions: an optional opening bracket, a position text    *)
(* with the number it denotes, the text between position and name, the     *)
(* name, and an optional carriage return.                                  *)

MaxParseModels == 3
MaxLines == 2

\* the i-th variant of identifier "a": the variants differ in the context size
ParseModel(i) == [BaseModel EXCEPT !.MaxTokens = i * 1000]

ParseModels(n) == [i \in 1..n |-> ParseModel(i)]

\* position texts: numeric tells whether the text is a decimal integer with
\* an optional sign, val is the integer
PositionTexts ==
    {[text |-> FormatInt(i), numeric |-> TRUE, val |-> i] : i \in 0..(MaxParseModels + 1)}
        \cup {[text |-> <<"+", "2">>, numeric |-> TRUE, val |-> 2],
              [text |-> <<"-", "1">>, numeric |-> TRUE, val |-> -1],
              [text |-> <<"x">>, numeric |-> FALSE, val |-> 0],
              [text |-> <<>>, numeric |-> FALSE, val |-> 0]}

LongName == [i \in 1..(MaxNameLen + 1) |-> "x"]

FullName == [i \in 1..MaxNameLen |-> "y"]

\* a line "[<position>] -> <name>" for every position text and two names, and
\* for position 1: the over-long, the longest and the empty name, the line
\* without its opening bracket, without the arrow, and with a carriage return
LineDescriptions ==
    {[open |-> <<"[">>, pos |-> p, arrow |-> TRUE, name |-> nm, cr |-> FALSE] :
        p \in PositionTexts, nm \in {<<"P">>, <<"Q", " ", "R">>}}
        \cup {[open |-> <<"[">>, pos |-> p, arrow |-> TRUE, name |-> nm, cr |-> FALSE] :
                p \in {q \in PositionTexts : q.text = <<"1">>},
                nm \in {LongName, FullName, <<>>}}
        \cup {[open |-> <<>>, pos |-> p, arrow |-> TRUE, name |-> <<"R">>, cr |-> FALSE] :
                p \in {q \in PositionTexts : q.text \in {<<"1">>, <<"2">>}}}
        \cup {[open |-> <<"[">>, pos |-> p, arrow |-> a, name |-> <<"S">>, cr |-> c] :
                p \in {q \in PositionTexts : q.text = <<"1">>},
                a \in BOOLEAN, c \in BOOLEAN}

\* the text of a line
LineText(d) ==
    d.open \o d.pos.text
        \o (IF d.arrow THEN <<"]", " ", "-", ">", " ">> ELSE <<"]", " ">>)
        \o d.name \o (IF d.cr THEN <<"\r">> ELSE <<>>)

ResponseText(lines) == Join([i \in 1..Len(lines) |-> LineText(lines[i])], <<"\n">>)

InitParse ==
    /\ IdleRun
    /\ fin \in {[lines |-> ls, n |-> n] :
                  ls \in SeqsUpTo(LineDescriptions, MaxLines) \ {<<>>},
                  n \in 2..MaxParseModels}
    /\ fout = <<>>

ApplyParse ==
    /\ fout = <<>>
    /\ fout' = [result |-> parseGroupNamesResponse(ResponseText(fin.lines),
                                                   ParseModels(fin.n))]
    /\ UNCHANGED <<fin, runVars>>

SpecParse == InitParse /\ [][ApplyParse]_vars

-----------------------------------------------------------------------------
(* The validation of a generated name on the two paths.  A raw text is     *)
(* drawn; the single-model path gets it as the answer, the group path as   *)
(* the name of the line for position 1 of a batch answer for two variants. *)

\* raw texts: a body, bare or between quote characters, bare or between blanks
RawNames ==
    {pad \o open \o body \o close \o pad :
        pad   \in {<<>>, <<" ">>},
        open  \in {<<>>, <<"\"">>, <<"'">>},
        close \in {<<>>, <<"\"">>, <<"'">>},
        body  \in {<<>>, <<"P">>, <<"Q", " ", "R">>, <<"P", "\n", "Q">>,
                   SubSeq(FullName, 1, MaxNameLen - 2), FullName, LongName}}

\* the name generateDisplayNameWithLLM returns for the answer raw
SinglePathName(raw) ==
    generateDisplayNameWithLLM(TRUE, ParseModel(1).ID, ParseModel(1).Description,
                               [kind |-> "ok", content |-> raw]).name

\* the name generateDisplayNamesForGroup returns for position 1 when the line
\* for it carries raw, "" if there is none
GroupPathName(raw) ==
    LET r == generateDisplayNamesForGroup(TRUE, ParseModels(2),
                 [kind |-> "ok", content |-> <<"[", "1", "]", " ", "-", ">", " ">> \o raw])
        k == getModelCacheKey(ParseModel(1))
    IN  IF ~r.names.isNil /\ k \in DOMAIN r.names.m THEN r.names.m[k] ELSE <<>>

InitValidate ==
    /\ IdleRun
    /\ fin \in RawNames
    /\ fout = <<>>

ApplyValidate ==
    /\ fout = <<>>
    /\ fout' = [single |-> SinglePathName(fin), group |-> GroupPathName(fin)]
    /\ UNCHANGED <<fin, runVars>>

SpecValidate == InitValidate /\ [][ApplyValidate]_vars

-----------------------------------------------------------------------------
(* The resolution loop as a function of the order of its groups.  A        *)
(* catalog with the identifiers "a" and "b", the cache at the start and,   *)
(* for each identifier, what its resolution meets (the answer of the       *)
(* generation service, failing cache reads, failing cache writes) are      *)
(* drawn; the action runs the loop in both orders.                         *)

MaxOrderCatalog == 3

\* the two variants of identifier "a", and the base model of the first one
\* offered under the identifier "b" with the same metadata
OrderModels ==
    { [BaseModel EXCEPT !.Provider = <<"o">>],
      [BaseModel EXCEPT !.Provider = <<"z">>, !.MaxTokens = 128000,
                        !.InputModalities = <<<<"t">>, <<"i">>>>],
      [BaseModel EXCEPT !.ID = <<"b">>, !.Provider = <<"o">>] }

OrderIds == {<<"a">>, <<"b">>}

OrderCatalogs ==
    {q \in SeqsUpTo(OrderModels, MaxOrderCatalog) :
        {q[i].ID : i \in 1..Len(q)} = OrderIds}

\* no credential, a failed call, a complete batch answer, a bare name, and a
\* batch line for position 1
OrderAnswers ==
    {g \in GenerationInputs :
        /\ g.http.kind \in {"neterr", "ok"}
        /\ g.http.content \notin {<<"a">>}
        /\ g.key => (g.http.kind = "neterr" \/ g.http.content # <<>>)}

\* the cache an earlier run left: empty, or with a name for the first
\* variant of "a" and one for "b"
OrderCaches ==
    {EmptyMap,
     [k \in {getModelCacheKey(m) : m \in {x \in OrderModels : x.Provider = <<"o">>}} |->
        [name |-> IF k[1] = <<"a">> THEN <<"R">> ELSE <<"S">>, created |-> 0]]}

\* the body of the range loop of main for one group: the cache after it and
\* the records appended
ProcessOne(c, t, models, gen, getErr, setErr) ==
    IF Len(models) = 1
    THEN LET r == createDisplayName(c, t, gen.key, models[1], gen.http,
                                    getErr /\ getModelCacheKey(models[1]) \in DOMAIN c,
                                    setErr)
         IN  [cache |-> r.cache,
              out   |-> OutputRecords(models,
                            MapPut(EmptyMap, SingleResultKey(models[1]), r.name))]
    ELSE LET r == createDisplayNamesForGroup(c, t, gen.key, models, gen.http,
                      IF getErr
                      THEN {i \in 1..Len(models) : getModelCacheKey(models[i]) \in DOMAIN c}
                      ELSE {},
                      IF setErr
                      THEN {getModelCacheKey(models[i]) : i \in 1..Len(models)}
                      ELSE {})
         IN  [cache |-> r.cache, out |-> OutputRecords(models, r.result)]

\* the loop over the groups in the given order: the cache after each
\* iteration (after the start cache) and the records of each identifier
RECURSIVE RunInOrder(_, _, _, _)
RunInOrder(order, caches, names, inp) ==
    IF order = <<>> THEN [caches |-> caches, names |-> names]
    ELSE LET id  == Head(order)
             res == ProcessOne(caches[Len(caches)], 1,
                               GroupModelsByID(inp.catalog)[id],
                               inp.gen[id], inp.get[id], inp.set[id])
         IN  RunInOrder(Tail(order), Append(caches, res.cache),
                        MapPut(names, id, res.out), inp)

InitOrder ==
    /\ IdleRun
    /\ fin \in {[catalog |-> q, cache |-> c, gen |-> g, get |-> ge, set |-> se] :
                  q \in OrderCatalogs, c \in OrderCaches,
                  g \in [OrderIds -> OrderAnswers],
                  ge \in [OrderIds -> BOOLEAN], se \in [OrderIds -> BOOLEAN]}
    /\ fout = <<>>

ApplyOrder ==
    /\ fout = <<>>
    /\ fout' = [ab |-> RunInOrder(<<<<"a">>, <<"b">>>>, <<fin.cache>>, EmptyMap, fin),
                ba |-> RunInOrder(<<<<"b">>, <<"a">>>>, <<fin.cache>>, EmptyMap, fin)]
    /\ UNCHANGED <<fin, runVars>>

SpecOrder == InitOrder /\ [][ApplyOrder]_vars

-----------------------------------------------------------------------------
(* Claims.                                                                 *)

\* C1: for a singleton group the display name of the model's output record is
\* the name createDisplayName returned for it (cached, generated or fallback),
\* recorded under the model's cache key.
C1_SingletonNameRecorded ==
    last.kind = "single" =>
        last.out[1].Name = last.res.name

\* C2: two models have the same fingerprint exactly if they agree on every
\* differentiation field.
C2_FingerprintInjective ==
    fout # <<>> =>
        ((DiffFields(fin[1]) = DiffFields(fin[2])) <=> (fout[1] = fout[2]))


\* the cache keys of the models of the last loop iteration
LastKey(i) == getModelCacheKey(last.models[i])

\* the row of key k is the same in the tables c and d
SameRow(c, d, k) ==
    /\ (k \in DOMAIN c) = (k \in DOMAIN d)
    /\ k \in DOMAIN c => c[k] = d[k]

\* C3: when the resolution of a model ends in the identifier fallback, no
\* cache.Set is made for its key and the row of that key is as it was before;
\* a key that was absent stays absent.
C3_FallbackNeverCached ==
    /\ (last.kind = "single" /\ last.res.source = "fallback") =>
          /\ last.res.name = last.models[1].ID
          /\ last.res.sets = {}
          /\ SameRow(cache, last.cacheBefore, LastKey(1))
    /\ last.kind = "group" =>
          \A i \in 1..Len(last.models) :
              LastKey(i) \in last.res.fallback =>
                  /\ last.res.result[LastKey(i)] = last.models[i].ID
                  /\ \A w \in last.res.sets : w.key # LastKey(i)
                  /\ SameRow(cache, last.cacheBefore, LastKey(i))

\* a batch answer named one member of a group and left another to the fallback
C3_Witness ==
    /\ last.kind = "group"
    /\ last.key
    /\ last.res.generated # {}
    /\ \E k \in last.res.fallback : k \notin DOMAIN cache

\* C4 (as claimed): no cache entry has a display name equal to its own model
\* identifier.
C4_NoIdentifierNamedEntry ==
    \A k \in DOMAIN cache : cache[k].name # k[1]

\* C4 (amended): every cache entry holds a validated name, and a row written
\* or changed by a resolution was written by a successful cache.Set of a name
\* taken from the answer of the generation service to that resolution, never
\* for a model that ended in the fallback.
C4_OnlyGeneratedNamesCached ==
    /\ \A k \in DOMAIN cache : ValidName(cache[k].name)
    /\ last.kind # "none" =>
          \A k \in DOMAIN cache :
              ~SameRow(cache, last.cacheBefore, k) =>
                  /\ last.key
                  /\ last.http.kind = "ok"
                  /\ Contains(last.http.content, cache[k].name)
                  /\ [key |-> k, name |-> cache[k].name, err |-> FALSE] \in last.res.sets
                  /\ last.kind = "single" => last.res.source = "llm"
                  /\ last.kind = "group" => k \in last.res.generated \ last.res.fallback

\* the service answered with the identifier itself and the answer was cached
C4_Witness ==
    /\ last.kind # "none"
    /\ \E k \in DOMAIN cache :
          /\ cache[k].name = k[1]
          /\ ~SameRow(cache, last.cacheBefore, k)


\* the positions of the last group whose lookup hit the cache
LastHits == last.res.hits

\* the request of the last resolution enumerates exactly the members whose
\* own lookup missed, in order
RequestsOnlyMisses ==
    /\ last.res.uncached = Pick(last.models, (1..Len(last.models)) \ LastHits, 1)
    /\ \A i \in LastHits : LastKey(i) \in DOMAIN last.cacheBefore
    /\ last.res.requests # <<>> =>
          /\ Len(last.res.requests) = 1
          /\ last.res.uncached # <<>>
          /\ last.res.requests[1].kind = "batch" =>
                /\ Len(last.res.requests[1].entries) = Len(last.res.uncached)
                /\ \A j \in 1..Len(last.res.uncached) :
                      /\ last.res.requests[1].entries[j].pos = j
                      /\ last.res.requests[1].entries[j].ID = last.res.uncached[j].ID
                      /\ last.res.requests[1].entries[j].Provider
                            = last.res.uncached[j].Provider
          /\ last.res.requests[1].kind = "single" =>
                /\ Len(last.res.uncached) = 1
                /\ last.res.requests[1].id = last.res.uncached[1].ID

\* the single-model part of C5
SingleReadsCacheFirst ==
    /\ last.res.requests # <<>> => last.res.source # "cache"
    /\ last.res.source = "cache" =>
          /\ LastKey(1) \in DOMAIN last.cacheBefore
          /\ last.res.name = last.cacheBefore[LastKey(1)].name
          /\ last.res.requests = <<>>
          /\ last.res.sets = {}
          /\ cache = last.cacheBefore

\* C5 (as claimed): a generation request is issued only for models whose
\* lookup missed; a model whose lookup hits gets its cached name, is not in
\* the request and is not re-written; when all members hit, no request is
\* made and the result is the cached mapping.
C5_HitKeepsCachedName ==
    /\ last.kind = "single" => SingleReadsCacheFirst
    /\ last.kind = "group" =>
          /\ RequestsOnlyMisses
          /\ \A i \in LastHits :
                /\ last.res.result[LastKey(i)] = last.cacheBefore[LastKey(i)].name
                /\ \A w \in last.res.sets : w.key # LastKey(i)
                /\ SameRow(cache, last.cacheBefore, LastKey(i))
          /\ LastHits = 1..Len(last.models) =>
                /\ last.res.requests = <<>>
                /\ cache = last.cacheBefore
                /\ DOMAIN last.res.result = {LastKey(i) : i \in 1..Len(last.models)}

\* C5 (amended): as claimed, except that a member whose lookup hit keeps its
\* cached name and is not re-written only if no other member of the group
\* with the same cache key missed (which a failed read of a stored row
\* brings about); the request enumerates exactly the members that missed.
C5_ReadCacheBeforeGenerate ==
    /\ last.kind = "single" => SingleReadsCacheFirst
    /\ last.kind = "group" =>
          /\ RequestsOnlyMisses
          /\ \A i \in LastHits :
                (\A j \in 1..Len(last.models) : LastKey(j) = LastKey(i) => j \in LastHits) =>
                    /\ last.res.result[LastKey(i)] = last.cacheBefore[LastKey(i)].name
                    /\ \A w \in last.res.sets : w.key # LastKey(i)
                    /\ SameRow(cache, last.cacheBefore, LastKey(i))
          /\ LastHits = 1..Len(last.models) =>
                /\ last.res.requests = <<>>
                /\ cache = last.cacheBefore
                /\ DOMAIN last.res.result = {LastKey(i) : i \in 1..Len(last.models)}

\* one member of a group hit the cache and a request went out for another one
C5_Witness ==
    /\ last.kind = "group"
    /\ LastHits # {}
    /\ last.res.requests # <<>>
    /\ \E i \in LastHits : \A j \in 1..Len(last.models) :
          j # i => LastKey(j) # LastKey(i)

\* C6: the mapping createDisplayNamesForGroup returns has an entry for the
\* cache key of every input model, and its value is the key's cached name, a
\* validated name from the answer of the generation service, or the model's
\* raw identifier.
C6_GroupResultComplete ==
    last.kind = "group" =>
        /\ DOMAIN last.res.result = {LastKey(i) : i \in 1..Len(last.models)}
        /\ \A i \in 1..Len(last.models) :
              LET k == LastKey(i)
                  v == last.res.result[k]
              IN  \/ k \in DOMAIN last.cacheBefore /\ v = last.cacheBefore[k].name
                  \/ /\ k \in last.res.generated
                     /\ ValidName(v)
                     /\ last.key /\ last.http.kind = "ok"
                     /\ Contains(last.http.content, v)
                  \/ v = last.models[i].ID

\* a group of two uncached members got an answer without any usable line
C6_Witness ==
    /\ last.kind = "group"
    /\ last.key
    /\ last.http.kind = "ok"
    /\ Len(last.res.uncached) = 2
    /\ last.res.requests # <<>>
    /\ last.res.generated = {}
    /\ \A i \in 1..2 : last.res.result[LastKey(i)] = last.models[i].ID


\* the line is one the parser is to use against n models: it has the arrow,
\* its position text is an integer between 1 and n and its name is valid;
\* with strict, it also opens with a bracket
LineUsed(d, n, strict) ==
    /\ strict => d.open = <<"[">>
    /\ d.arrow
    /\ d.pos.numeric /\ d.pos.val >= 1 /\ d.pos.val <= n
    /\ Len(d.name) >= 1 /\ Len(d.name) <= MaxNameLen

\* the names the lines assign, by their descriptions: each used line gives
\* its name to the key of the model at its position, a later line replacing
\* an earlier one for the same position; the other lines give nothing
RECURSIVE ExpectedNames(_, _, _)
ExpectedNames(lines, n, strict) ==
    IF lines = <<>> THEN EmptyMap
    ELSE LET front == ExpectedNames(SubSeq(lines, 1, Len(lines) - 1), n, strict)
             d     == lines[Len(lines)]
         IN  IF LineUsed(d, n, strict)
             THEN MapPut(front, getModelCacheKey(ParseModel(d.pos.val)), d.name)
             ELSE front

\* C7 (as claimed): a line "[p] -> name" with 1 <= p <= n and a valid name
\* gives the name to the key of the model at position p; a line that does not
\* match the pattern "[<position>] -> <name>", or whose position is not a
\* positive integer or is above n, is discarded without any effect on the
\* other positions.
C7_OnlyPatternLinesUsed ==
    fout # <<>> => fout.result = ExpectedNames(fin.lines, fin.n, TRUE)

\* C7 (amended): as claimed, except that the opening bracket is optional: a
\* line "p] -> name" is used like "[p] -> name".  The position is read as a
\* decimal integer with an optional sign; a line without "] ->", with a
\* position that is no such integer, below 1 or above n, or with an empty or
\* over-long name is discarded without any effect on the other positions.
C7_ParsedByPosition ==
    fout # <<>> => fout.result = ExpectedNames(fin.lines, fin.n, FALSE)

\* a line for position n + 1 was discarded next to a line that was used
C7_Witness ==
    /\ fout # <<>>
    /\ \E i, j \in 1..Len(fin.lines) :
          /\ fin.lines[i].open = <<"[">> /\ fin.lines[i].arrow
          /\ fin.lines[i].pos.val = fin.n + 1
          /\ Len(fin.lines[i].name) = 1
          /\ LineUsed(fin.lines[j], fin.n, TRUE)
          /\ DOMAIN fout.result = {getModelCacheKey(ParseModel(fin.lines[j].pos.val))}
          /\ fout.result[getModelCacheKey(ParseModel(fin.lines[j].pos.val))]
                = fin.lines[j].name

\* the last group resolution: every lookup missed, the fingerprints differ
\* pairwise, the answer carries one valid line per position and every cache
\* write went through
GroupSuccessCase ==
    /\ last.kind = "group"
    /\ last.key
    /\ LastHits = {}
    /\ \A i, j \in 1..Len(last.models) :
          i # j => hashModelMetadata(last.models[i]) # hashModelMetadata(last.models[j])
    /\ last.http.kind = "ok"
    /\ last.http.content = BatchAnswer(Len(last.models))
    /\ \A w \in last.res.sets : ~w.err

\* C8: in the success case the mapping holds each member's own name under its
\* own cache key and the cache returns that name for the member afterwards;
\* and in every resolution a row of the cache changes only by a cache.Set for
\* exactly its key, so a write for one member leaves what the cache returns
\* for every other key with the same identifier as it was.
C8_GroupSuccessPersisted ==
    /\ GroupSuccessCase =>
          \A i \in 1..Len(last.models) :
              /\ last.res.result[LastKey(i)] = AnswerNames[i]
              /\ CacheGet(cache, last.models[i], FALSE) = AnswerNames[i]
    /\ last.kind # "none" =>
          \A k \in (DOMAIN cache) \cup (DOMAIN last.cacheBefore) :
              (\A w \in last.res.sets : w.err \/ w.key # k) =>
                  SameRow(cache, last.cacheBefore, k)

\* two variants of one identifier were named by one answer and both names
\* are in the cache under their own keys
C8_Witness ==
    /\ GroupSuccessCase
    /\ Len(last.models) = 2
    /\ LastKey(1) # LastKey(2)
    /\ LastKey(1)[1] = LastKey(2)[1]
    /\ cache[LastKey(1)].name = AnswerNames[1]
    /\ cache[LastKey(2)].name = AnswerNames[2]

\* the last resolution went to the generation service and the generation
\* failed: there was no credential, the call failed, or the payload had no
\* valid name in it
GenerationAttempted ==
    \/ last.kind = "single" /\ last.res.source # "cache"
    \/ last.kind = "group" /\ last.res.uncached # <<>>

CallFailed == last.key /\ last.http.kind # "ok"

PayloadInvalid ==
    /\ last.key /\ last.http.kind = "ok"
    /\ \/ last.kind = "single" /\ last.res.source = "fallback"
       \/ last.kind = "group" /\ last.res.generated = {}

\* every model of the last resolution that missed the cache ended with its
\* identifier or, in a group, with a name the cache held for its key
AllFallback ==
    /\ last.kind = "single" =>
          /\ last.res.source = "fallback"
          /\ last.res.name = last.models[1].ID
    /\ last.kind = "group" =>
          /\ last.res.generated = {}
          /\ \A i \in (1..Len(last.models)) \ LastHits :
                \/ last.res.result[LastKey(i)] = last.models[i].ID
                \/ /\ LastKey(i) \in DOMAIN last.cacheBefore
                   /\ last.res.result[LastKey(i)] = last.cacheBefore[LastKey(i)].name

\* the run went on: every model of the resolution has its output record
RunContinues ==
    /\ Len(last.out) = Len(last.models)
    /\ pc # "start"

\* C9 (as claimed): every generation failure (missing credential, network
\* error, non-success status, decode error, empty choice list, invalid
\* payload) ends in the fallback, does not abort the run and is reported to
\* the notification sink.
C9_EveryFailureReported ==
    (GenerationAttempted /\ (~last.key \/ CallFailed \/ PayloadInvalid)) =>
        /\ AllFallback
        /\ RunContinues
        /\ last.res.notes # <<>>

\* C9 (amended): every such failure ends in the fallback and does not abort
\* the run.  A network error, a non-success status, a decode error and an
\* empty choice list are reported to the notification sink exactly once, in
\* both paths, and so is an invalid name in the answer to a single-model
\* request; a missing credential is not reported and sends no request, and
\* an answer to a batch request without any usable line is not reported.
C9_FailureFallsBack ==
    /\ (GenerationAttempted /\ (~last.key \/ CallFailed \/ PayloadInvalid)) =>
          /\ AllFallback
          /\ RunContinues
    /\ (GenerationAttempted /\ ~last.key) =>
          last.res.notes = <<>> /\ last.res.requests = <<>>
    /\ (GenerationAttempted /\ CallFailed) =>
          Len(last.res.notes) = 1 /\ Len(last.res.requests) = 1
    /\ (GenerationAttempted /\ PayloadInvalid) =>
          /\ Len(last.res.requests) = 1
          /\ last.res.requests[1].kind = "single" => Len(last.res.notes) = 1
          /\ last.res.requests[1].kind = "batch" => last.res.notes = <<>>
    /\ (GenerationAttempted /\ last.res.notes = <<>> /\ last.key) =>
          last.http.kind = "ok"

\* a batch request for two variants got a non-success status
C9_Witness ==
    /\ last.kind = "group"
    /\ CallFailed
    /\ last.http.kind = "status"
    /\ Len(last.res.uncached) = 2
    /\ last.res.notes # <<>>
    /\ \A i \in 1..2 : last.res.result[LastKey(i)] = last.models[i].ID

\* the external call of the last group resolution failed outright
GroupCallFailed ==
    /\ last.kind = "group"
    /\ last.res.uncached # <<>>
    /\ ~last.key \/ last.http.kind # "ok"

\* C10 (as claimed): if the external call of a group resolution fails
\* outright, every uncached member is mapped to its raw identifier, no cache
\* write happens and the names of the cached members are unchanged.
C10_FailedCallAllIdentifiers ==
    GroupCallFailed =>
        /\ \A i \in (1..Len(last.models)) \ LastHits :
              last.res.result[LastKey(i)] = last.models[i].ID
        /\ last.res.sets = {}
        /\ cache = last.cacheBefore
        /\ \A i \in LastHits :
              last.res.result[LastKey(i)] = last.cacheBefore[LastKey(i)].name

\* C10 (amended): as claimed, except that an uncached member whose cache key
\* is also the key of a member found in the cache (its own read of the stored
\* row failed) is mapped to that cached name instead of its raw identifier.
C10_FailedCallFallsBack ==
    GroupCallFailed =>
        /\ \A i \in (1..Len(last.models)) \ LastHits :
              IF \E j \in LastHits : LastKey(j) = LastKey(i)
              THEN last.res.result[LastKey(i)] = last.cacheBefore[LastKey(i)].name
              ELSE last.res.result[LastKey(i)] = last.models[i].ID
        /\ last.res.sets = {}
        /\ cache = last.cacheBefore
        /\ \A i \in LastHits :
              last.res.result[LastKey(i)] = last.cacheBefore[LastKey(i)].name

\* the call failed for a group with one member in the cache and one not
C10_Witness ==
    /\ GroupCallFailed
    /\ last.key
    /\ LastHits = {1}
    /\ LastKey(2) # LastKey(1)
    /\ last.res.result[LastKey(1)] = last.cacheBefore[LastKey(1)].name
    /\ last.res.result[LastKey(2)] = last.models[2].ID


\* the answer of the service to the last resolution is a name as it stands:
\* valid, and without quote characters or white space around it
AnswerIsName ==
    /\ last.key
    /\ last.http.kind = "ok"
    /\ ValidName(last.http.content)
    /\ \A i \in {1, Len(last.http.content)} :
          last.http.content[i] \notin {"\"", "'", " ", "\t", "\n", "\r"}

\* C11: when createDisplayName misses the cache and the generation returns a
\* validated name N, it returns N and makes exactly one cache.Set of N for
\* the model's key; if the write succeeds the cache returns N for the model,
\* with the time of the write, and when it fails the table is unchanged.
C11_SingleWriteThrough ==
    (last.kind = "single" /\ last.res.source # "cache" /\ AnswerIsName) =>
        /\ last.res.source = "llm"
        /\ last.res.name = last.http.content
        /\ \E err \in BOOLEAN :
              /\ last.res.sets = {[key |-> LastKey(1), name |-> last.http.content,
                                   err |-> err]}
              /\ ~err => /\ CacheGet(cache, last.models[1], FALSE) = last.http.content
                         /\ cache[LastKey(1)].created = now
              /\ err => cache = last.cacheBefore

\* a name was generated for a model absent from the cache and is stored
C11_Witness ==
    /\ last.kind = "single"
    /\ LastKey(1) \notin DOMAIN last.cacheBefore
    /\ AnswerIsName
    /\ LastKey(1) \in DOMAIN cache
    /\ cache[LastKey(1)].name = last.res.name

\* the lookup of member i of the last resolution met a storage error: the row
\* was there and the lookup returned nothing
ReadFailed(i) ==
    /\ LastKey(i) \in DOMAIN last.cacheBefore
    /\ \/ last.kind = "single" /\ last.res.source # "cache"
       \/ last.kind = "group" /\ i \notin LastHits

\* C12: a failed cache.Set leaves the generated name in the result of
\* createDisplayName and createDisplayNamesForGroup and the table as it was
\* for that key, and the run goes on; a cache.Get that fails on a stored row
\* is handled as a miss: the model goes to the generation, with a request if
\* the credential is set, and createDisplayName returns the generated name
\* or the identifier.
C12_StorageErrorNotFatal ==
    last.kind # "none" =>
        /\ RunContinues
        /\ \A w \in last.res.sets :
              w.err =>
                  /\ SameRow(cache, last.cacheBefore, w.key)
                  /\ last.kind = "single" => last.res.name = w.name
                  /\ last.kind = "group" => last.res.result[w.key] = w.name
        /\ \A i \in 1..Len(last.models) :
              ReadFailed(i) =>
                  /\ (last.res.requests # <<>>) = last.key
                  /\ last.kind = "single" =>
                        /\ AnswerIsName => last.res.name = last.http.content
                        /\ last.res.source = "fallback" =>
                              last.res.name = last.models[1].ID
                        /\ last.res.source \in {"llm", "fallback"}
                  /\ last.kind = "group" =>
                        \E j \in 1..Len(last.res.uncached) :
                            last.res.uncached[j] = last.models[i]

\* a generated name was returned although its cache write failed
C12_Witness ==
    /\ last.kind = "single"
    /\ AnswerIsName
    /\ \E w \in last.res.sets : w.err
    /\ last.res.name = last.http.content
    /\ LastKey(1) \notin DOMAIN cache
    /\ Len(providerModels) >= 1


\* a step of the run that removes a row from the cache
RemovesRow == \E k \in DOMAIN cache : k \notin DOMAIN cache'

\* a step that reads or writes the cache for a name resolution
ResolutionStep == last' # last /\ last'.kind # "none"

\* C13: the sweep is the one step between the opening of the cache and the
\* catalog fetch, so it runs once in a run, before any resolution of the run
\* has read or written the cache; whether it fails or not the run goes on to
\* the fetch; only the sweep removes rows, only rows older than 30 days, and
\* a row written in the run in progress stays to the end of the run.
C13_SweepOnceBeforeResolution ==
    [][/\ pc' = "clean" => pc = "start"
       /\ pc = "clean" =>
             /\ pc' = "fetch"
             /\ last = NoResolution /\ providerModels = <<>>
             /\ run' = run
       /\ ResolutionStep => pc = "loop" /\ pc' = "loop" /\ run' = run
       /\ pc' = "start" => run' = run + 1
       /\ RemovesRow =>
             /\ pc = "clean"
             /\ \A k \in (DOMAIN cache) \ (DOMAIN cache') :
                   cache[k].created < now - MaxAgeDays
       /\ \A k \in DOMAIN cache' :
             (k \notin DOMAIN cache \/ cache'[k] # cache[k]) =>
                 ResolutionStep /\ cache'[k].created = now
       /\ \A k \in DOMAIN cache :
             (cache[k].created = now /\ run' = run) => k \in DOMAIN cache'
      ]_vars

\* a second run whose sweep failed on an expired row went on to its end and
\* wrote a row of its own
C13_Witness ==
    /\ run = 2
    /\ now = MaxAgeDays + 1
    /\ pc = "done"
    /\ \E k \in DOMAIN cache : cache[k].created = 0
    /\ \E k \in DOMAIN cache : cache[k].created = now

\* the model is one main keeps: enabled, available and of type "llm"
Eligible(m) == m.Enabled = 1 /\ m.Available = 1 /\ m.Type = "llm"

\* the number of positions of the sequence q that satisfy Test
CountOf(q, Test(_)) == Cardinality({i \in 1..Len(q) : Test(q[i])})

\* the records are one for every eligible model of the catalog, by identifier
OutputComplete ==
    /\ Len(providerModels) = CountOf(catalog, Eligible)
    /\ \A id \in {catalog[i].ID : i \in 1..Len(catalog)} :
          CountOf(providerModels, LAMBDA r : r.ID = id)
              = CountOf(catalog, LAMBDA m : Eligible(m) /\ m.ID = id)

\* C14: no failure of the generation service or of a cache read or write
\* aborts the run: a run that aborted failed to open the cache, to fetch the
\* catalog, or to write the output.  The records handed to the output are
\* exactly one for every eligible catalog model, and the record of a model
\* carries its identifier and the name resolved for it or its identifier.
C14_CompleteOutput ==
    /\ pc \in {"write", "done"} => OutputComplete
    /\ pc = "aborted" => catalog = <<>> \/ (pending = {} /\ OutputComplete)
    /\ last.kind # "none" =>
          /\ Len(last.out) = Len(last.models)
          /\ \A i \in 1..Len(last.models) :
                /\ Eligible(last.models[i])
                /\ last.out[i].ID = last.models[i].ID
                /\ \/ last.out[i].Name = last.models[i].ID
                   \/ last.kind = "single" /\ last.out[i].Name = last.res.name
                   \/ last.kind = "group" /\ last.out[i].Name = last.res.result[LastKey(i)]
          /\ pc = "loop" =>
                /\ Len(providerModels) >= Len(last.out)
                /\ SubSeq(providerModels, Len(providerModels) - Len(last.out) + 1,
                          Len(providerModels)) = last.out

\* a run with a disabled model in the catalog and a failing generation
\* service wrote one record, for the eligible model
C14_Witness ==
    /\ pc = "done"
    /\ Len(catalog) = 2
    /\ CountOf(catalog, Eligible) = 1
    /\ Len(providerModels) = 1
    /\ last.kind = "single"
    /\ last.key /\ last.http.kind = "decode"
    /\ providerModels[1].ID = last.models[1].ID

\* a is before b or equal to it, byte by byte: they agree up to a position
\* where a ends or where a has the smaller byte
LexLeq(a, b) ==
    \E n \in 0..Len(a) :
        /\ n <= Len(b)
        /\ \A i \in 1..n : a[i] = b[i]
        /\ \/ n = Len(a)
           \/ n < Len(b) /\ ByteOf(a[n + 1]) < ByteOf(b[n + 1])

\* C15: the records handed to the output are in ascending order of their
\* display names, compared byte by byte (upper case before lower case).
C15_OutputSortedByName ==
    pc \in {"write", "done"} =>
        \A i \in 1..(Len(providerModels) - 1) :
            LexLeq(providerModels[i].Name, providerModels[i + 1].Name)

\* an upper-case name is written before a lower-case one
C15_Witness ==
    /\ pc = "done"
    /\ Len(providerModels) = 2
    /\ providerModels[1].Name = <<"P">>
    /\ providerModels[2].Name = <<"a">>


\* C16: for every raw generated text the group path accepts it exactly if the
\* single-model path accepts it, and both give the same name.
C16_SameValidation ==
    fout # <<>> => fout.single = fout.group


\* the text the prompt is to show for a list of modalities and for a context
\* size, for the values the catalog models have
ModalityText(modalities) ==
    IF modalities = <<>> THEN <<"t", "e", "x", "t">>
    ELSE IF modalities = <<<<"t">>, <<"i">>>> THEN <<"t", ",", " ", "i">>
    ELSE <<"?">>

ContextText(maxTokens) ==
    IF maxTokens = 0 THEN <<>>
    ELSE IF maxTokens = 128000 THEN <<"(", "1", "2", "8", "K", " ", "t", "o", "k", "e", "n", "s", ")">>
    ELSE <<"?">>

\* the description up to its first line break
UpToLineBreak(description) ==
    LET breaks == {i \in 1..Len(description) : description[i] = "\n"}
    IN  IF breaks = {} THEN description
        ELSE SubSeq(description, 1, SetMin(breaks) - 1)

\* the entry of the batch prompt for model m at position j
ExpectedEntry(m, j) ==
    [pos |-> j, ID |-> m.ID, Model |-> m.Model, Provider |-> m.Provider,
     Route |-> m.Route, Pool |-> m.Pool, Subtype |-> m.Subtype,
     InputModalities  |-> ModalityText(m.InputModalities),
     OutputModalities |-> ModalityText(m.OutputModalities),
     ContextWindow    |-> ContextText(m.MaxTokens),
     Description      |-> UpToLineBreak(m.Description)]

\* the one request of the last group resolution is the batch request that
\* enumerates every uncached member at its position with its full context
BatchRequestSent ==
    /\ Len(last.res.requests) = 1
    /\ last.res.requests[1].kind = "batch"
    /\ last.res.requests[1].entries =
          [j \in 1..Len(last.res.uncached) |-> ExpectedEntry(last.res.uncached[j], j)]

\* C17 (as claimed): whenever a group resolution leaves at least one member
\* uncached, exactly one included, the request it issues is the batch request
\* enumerating every uncached member at 1-based positions with its full
\* differentiation context.
C17_AlwaysBatchRequest ==
    (last.kind = "group" /\ last.res.uncached # <<>> /\ last.res.requests # <<>>) =>
        BatchRequestSent

\* C17 (amended): with two or more uncached members the request is that batch
\* request, and a complete answer gives each uncached member the name of the
\* line with its position; with exactly one uncached member the request is
\* the single-model request, carrying the identifier and the first line of
\* the description only, and the answer as a whole is the member's name.
C17_BatchForSeveralUncached ==
    (last.kind = "group" /\ last.res.uncached # <<>> /\ last.res.requests # <<>>) =>
        IF Len(last.res.uncached) >= 2
        THEN /\ BatchRequestSent
             /\ (/\ last.http.kind = "ok"
                 /\ last.http.content = BatchAnswer(Len(last.res.uncached))
                 /\ \A i, j \in 1..Len(last.res.uncached) :
                       i # j => getModelCacheKey(last.res.uncached[i])
                                  # getModelCacheKey(last.res.uncached[j])) =>
                   \A j \in 1..Len(last.res.uncached) :
                       last.res.result[getModelCacheKey(last.res.uncached[j])]
                           = AnswerNames[j]
        ELSE /\ last.res.requests =
                    <<[kind |-> "single", id |-> last.res.uncached[1].ID,
                       description |-> UpToLineBreak(last.res.uncached[1].Description)]>>
             /\ AnswerIsName =>
                    last.res.result[getModelCacheKey(last.res.uncached[1])]
                        = last.http.content

\* two uncached variants were enumerated in one batch request and named by
\* the lines of the answer
C17_Witness ==
    /\ last.kind = "group"
    /\ Len(last.res.uncached) = 2
    /\ BatchRequestSent
    /\ last.http.kind = "ok"
    /\ last.http.content = BatchAnswer(2)
    /\ last.res.uncached[2].MaxTokens = 128000
    /\ last.res.result[getModelCacheKey(last.res.uncached[1])] = AnswerNames[1]
    /\ last.res.result[getModelCacheKey(last.res.uncached[2])] = AnswerNames[2]


\* the request of a resolution concerns the identifier id
RequestFor(req, id) ==
    /\ req.kind = "single" => req.id = id
    /\ req.kind = "batch" => \A j \in 1..Len(req.entries) : req.entries[j].ID = id

\* C18: every step of the resolution loop takes one group that is still to
\* be processed out of the loop for the rest of the run and issues at most
\* one generation request, for that group, whatever the outcome of the call;
\* the groups to be processed are set once in a run and only shrink after.
C18_NoRetryWithinRun ==
    [][/\ (pc = "loop" /\ pc' = "loop") =>
             \E id \in pending :
                 /\ pending' = pending \ {id}
                 /\ modelGroups' = modelGroups
                 /\ run' = run
                 /\ last'.models = modelGroups[id]
                 /\ Len(last'.res.requests) <= 1
                 /\ \A n \in 1..Len(last'.res.requests) :
                       RequestFor(last'.res.requests[n], id)
       /\ pending' # pending =>
             \/ pc = "group" /\ pc' = "loop"
             \/ pc = "loop" /\ pc' = "loop"
             \/ pc' = "start" /\ pending' = {}
       /\ (pc # "loop" /\ pc' # "loop") => last' = last \/ last' = NoResolution
      ]_vars

\* two groups were processed, the last one with a call that failed
C18_Witness ==
    /\ pc = "loop"
    /\ pending = {}
    /\ Cardinality(DOMAIN modelGroups) = 2
    /\ last.key
    /\ last.http.kind = "neterr"
    /\ Len(last.res.requests) = 1

\* the steps main has before it, by its position: the stages still to come
\* and, in the loop, the groups still to be processed
StagesLeft ==
    CASE pc = "start" -> 6
      [] pc = "clean" -> 5
      [] pc = "fetch" -> 4
      [] pc = "group" -> 3
      [] pc = "loop"  -> 2
      [] pc = "write" -> 1
      [] OTHER        -> 0

StepsLeft == StagesLeft * (MaxCatalog + 1) + Cardinality(pending)

\* C19: every run comes to its end.  Every step of a run, whatever the
\* calls it makes return, brings main strictly closer to the end: StepsLeft
\* is a natural number that every step lowers, and it is 0 exactly when the
\* run has aborted or has written the output; in the loop every group still
\* to be processed has a member, so a branch of the loop applies to it.
C19_RunTerminates ==
    /\ [](/\ StepsLeft \in 0..(6 * (MaxCatalog + 1))
          /\ (StepsLeft = 0) = (pc \in {"done", "aborted"})
          /\ pending # {} => pc = "loop"
          /\ \A id \in pending : Len(modelGroups[id]) >= 1)
    /\ [][pc' # "start" => StepsLeft' < StepsLeft]_vars

\* a run whose generation call failed for a group reached the output write
C19_Witness ==
    /\ pc = "done"
    /\ last.kind = "group"
    /\ last.key
    /\ last.http.kind = "neterr"
    /\ Len(providerModels) = 2

\* C20: when no cache write of a resolution failed, the cache returns, for
\* every model whose name did not end in the identifier fallback, exactly
\* the name the resolution returned for it; so when several lines of a batch
\* answer resolve to one cache key, the mapping and the cache hold the same
\* name, that of the last such line.
C20_ResultAgreesWithCache ==
    (last.kind # "none" /\ \A w \in last.res.sets : ~w.err) =>
        /\ (last.kind = "single" /\ last.res.source # "fallback") =>
              CacheGet(cache, last.models[1], FALSE) = last.res.name
        /\ last.kind = "group" =>
              \A i \in 1..Len(last.models) :
                  LastKey(i) \notin last.res.fallback =>
                      CacheGet(cache, last.models[i], FALSE)
                          = last.res.result[LastKey(i)]

\* the two lines of a batch answer resolved to one cache key, and the name
\* of the second is in the mapping and in the cache
C20_Witness ==
    /\ last.kind = "group"
    /\ Len(last.models) = 2
    /\ LastKey(1) = LastKey(2)
    /\ LastHits = {}
    /\ last.key /\ last.http.kind = "ok"
    /\ last.http.content = BatchAnswer(2)
    /\ last.res.result[LastKey(1)] = AnswerNames[2]
    /\ cache[LastKey(1)].name = AnswerNames[2]


\* member i of the last resolution has a row in the cache that an earlier run
\* wrote and that has not reached the maximum age, and the row was read: the
\* lookup of the member, and of every member with the same cache key, hit
StoredByEarlierRun(i) ==
    /\ LastKey(i) \in DOMAIN last.cacheBefore
    /\ last.cacheBefore[LastKey(i)].created < now
    /\ now - last.cacheBefore[LastKey(i)].created <= MaxAgeDays
    /\ last.kind = "single" => last.res.source = "cache"
    /\ last.kind = "group" =>
          \A j \in 1..Len(last.models) : LastKey(j) = LastKey(i) => j \in LastHits

\* C21: a model whose name N an earlier run generated and stored, seen again
\* with the same identifier and the same differentiation fields before the
\* row is 30 days old, has N as the display name of its output record, and
\* no generation request is issued for it.
C21_StoredNameInLaterOutput ==
    last.kind # "none" =>
        \A i \in 1..Len(last.models) :
            StoredByEarlierRun(i) =>
                /\ last.out[i].Name = last.cacheBefore[LastKey(i)].name
                /\ last.kind = "single" => last.res.requests = <<>>
                /\ last.kind = "group" =>
                      \A j \in 1..Len(last.res.uncached) :
                          getModelCacheKey(last.res.uncached[j]) # LastKey(i)


\* the iterations of a run of the loop in the given order left every row of
\* the other identifiers as it was
OwnRowsOnly(order, caches) ==
    \A n \in 1..Len(order) :
        \A k \in (DOMAIN caches[n]) \cup (DOMAIN caches[n + 1]) :
            k[1] # order[n] => SameRow(caches[n], caches[n + 1], k)

\* C22: for a fixed catalog, start cache and fixed answers and storage
\* outcomes per group, the records of every identifier and the cache at the
\* end are the same for both orders of the groups, and the resolution of a
\* group changes no row of a model with another identifier.
C22_OrderIndependent ==
    fout # <<>> =>
        /\ fout.ab.names = fout.ba.names
        /\ fout.ab.caches[3] = fout.ba.caches[3]
        /\ OwnRowsOnly(<<<<"a">>, <<"b">>>>, fout.ab.caches)
        /\ OwnRowsOnly(<<<<"b">>, <<"a">>>>, fout.ba.caches)

\* starting on an empty cache, both groups stored a name, and the group of
\* "a" has two members
C22_Witness ==
    /\ fout # <<>>
    /\ fin.cache = EmptyMap
    /\ Len(fout.ab.names[<<"a">>]) = 2
    /\ \E k \in DOMAIN fout.ab.caches[3] : k[1] = <<"a">>
    /\ \E k \in DOMAIN fout.ab.caches[3] : k[1] = <<"b">>
    /\ fin.gen[<<"a">>] # fin.gen[<<"b">>]

====
